---------------------------- MODULE Spec2Model ----------------------------
(***************************************************************************)
(* A model of the gifenc core: applyPalette (palettize.ts), the PNN color  *)
(* quantizer quantize (pnnquant2) and the GIFEncoder container assembler.  *)
(* Colors are tuples <<r, g, b>> or <<r, g, b, a>> of bytes.  A pixel of   *)
(* the Uint32Array view "data" is kept as the tuple <<r, g, b, a>> that    *)
(* the code unpacks from it with (color >> 24) & 0xff, ... , color & 0xff. *)
(***************************************************************************)
EXTENDS Integers, Sequences, FiniteSets, TLC

VARIABLES ap, qz, enc, encM, hist

vars == <<ap, qz, enc, encM, hist>>

(***************************************************************************)
(* Bounds of the model.                                                    *)
(***************************************************************************)
MaxPixels == 3
MaxPalette == 2
MaxColors == 4
MaxCalls == 2
MaxResets == 1
MaxFrames == 3
TableCalls == 2

(***************************************************************************)
(* Integer helpers: JavaScript's bit operators on non-negative integers.   *)
(***************************************************************************)
Max(a, b) == IF a >= b THEN a ELSE b

Min(a, b) == IF a <= b THEN a ELSE b

RECURSIVE Pow2(_)
Pow2(n) == IF n <= 0 THEN 1 ELSE 2 * Pow2(n - 1)

RECURSIVE BitAnd(_, _)
BitAnd(a, b) ==
    IF a = 0 \/ b = 0 THEN 0
    ELSE (a % 2) * (b % 2) + 2 * BitAnd(a \div 2, b \div 2)

RECURSIVE BitOr(_, _)
BitOr(a, b) ==
    IF a = 0 THEN b
    ELSE IF b = 0 THEN a
    ELSE Max(a % 2, b % 2) + 2 * BitOr(a \div 2, b \div 2)

Shl(a, n) == a * Pow2(n)

Shr(a, n) == a \div Pow2(n)

sqr(a) == a * a

SeqsUpTo(S, n) == UNION {[1..k -> S] : k \in 0..n}

\* The value of each component while another component's calls are checked.
apIdle ==
    [pc |-> "idle", data |-> <<>>, palette |-> <<>>, format |-> "rgb565",
     out |-> [threw |-> FALSE, index |-> <<>>]]

\* GIFEncoder(): a new encoder (auto mode by default), its stream empty.
GIFEncoder(auto) == [auto |-> auto, stream |-> <<>>, hasInit |-> FALSE]

encIdle == GIFEncoder(TRUE)

histIdle == [epoch |-> <<>>, resets |-> 0]

(***************************************************************************)
(* rgb-packing: the packed color keys.                                     *)
(***************************************************************************)
rgb888_to_rgb565(r, g, b) ==
    BitOr(BitOr(Shl(BitAnd(r, 248), 8), Shl(BitAnd(g, 252), 3)), Shr(b, 3))

rgb888_to_rgb444(r, g, b) ==
    BitOr(BitOr(Shl(BitAnd(r, 240), 4), BitAnd(g, 240)), Shr(b, 4))

rgba8888_to_rgba4444(r, g, b, a) ==
    BitOr(Shl(BitAnd(a, 240), 8), rgb888_to_rgb444(r, g, b))

Formats == {"rgb565", "rgb444", "rgba4444"}

(***************************************************************************)
(* applyPalette: the nearest-index scans.  Huge stands for the code's      *)
(* 1e100, which is above every squared distance (at most 4 * 255^2).       *)
(***************************************************************************)
Huge == 2000000000

\* One pass of the for loop of nearestColorIndexRGBA from palette index i
\* (0-based) with the running best k, mindist.
RECURSIVE scanRGBA(_, _, _, _, _, _, _, _)
scanRGBA(r, g, b, a, palette, i, k, mindist) ==
    IF i >= Len(palette) THEN k
    ELSE LET px2 == palette[i + 1]
             d1 == sqr(px2[4] - a)
             d2 == d1 + sqr(px2[1] - r)
             d3 == d2 + sqr(px2[2] - g)
             d4 == d3 + sqr(px2[3] - b)
         IN  IF d1 > mindist \/ d2 > mindist \/ d3 > mindist \/ d4 > mindist
             THEN scanRGBA(r, g, b, a, palette, i + 1, k, mindist)
             ELSE scanRGBA(r, g, b, a, palette, i + 1, i, d4)

nearestColorIndexRGBA(r, g, b, a, palette) ==
    scanRGBA(r, g, b, a, palette, 0, 0, Huge)

RECURSIVE scanRGB(_, _, _, _, _, _, _)
scanRGB(r, g, b, palette, i, k, mindist) ==
    IF i >= Len(palette) THEN k
    ELSE LET px2 == palette[i + 1]
             d1 == sqr(px2[1] - r)
             d2 == d1 + sqr(px2[2] - g)
             d3 == d2 + sqr(px2[3] - b)
         IN  IF d1 > mindist \/ d2 > mindist \/ d3 > mindist
             THEN scanRGB(r, g, b, palette, i + 1, k, mindist)
             ELSE scanRGB(r, g, b, palette, i + 1, i, d3)

\* Mutant: the scan keeps the first of the nearest entries (>= for >).
RECURSIVE scanRGB_strict(_, _, _, _, _, _, _)
scanRGB_strict(r, g, b, palette, i, k, mindist) ==
    IF i >= Len(palette) THEN k
    ELSE LET px2 == palette[i + 1]
             d3 == sqr(px2[1] - r) + sqr(px2[2] - g) + sqr(px2[3] - b)
         IN  IF d3 >= mindist
             THEN scanRGB_strict(r, g, b, palette, i + 1, k, mindist)
             ELSE scanRGB_strict(r, g, b, palette, i + 1, i, d3)

nearestColorIndexRGB_strict(r, g, b, palette) ==
    scanRGB_strict(r, g, b, palette, 0, 0, Huge)

\* Mutant: the scan returns the palette length (one past the last index).
nearestColorIndexRGB_length(r, g, b, palette) == Len(palette)

\* Mutant: the scan never moves off its initial k = 0.
nearestColorIndexRGB_zero(r, g, b, palette) == 0

nearestColorIndexRGB(r, g, b, palette) ==
    scanRGB(r, g, b, palette, 0, 0, Huge)

\* The size of the cache array applyPalette allocates.
applyPalette_bincount(format) == IF format = "rgb444" THEN 4096 ELSE 65536

\* The cache key applyPalette computes for a pixel.  In the branch without
\* alpha the code picks rgb888_to_key = hasAlpha ? rgb444 : rgb565 with
\* hasAlpha false there.
applyPalette_key(format, color) ==
    LET hasAlpha == format = "rgba4444"
        r == color[1]
        g == color[2]
        b == color[3]
        a == color[4]
    IN  IF hasAlpha THEN rgba8888_to_rgba4444(r, g, b, a)
        ELSE IF hasAlpha THEN rgb888_to_rgb444(r, g, b)
        ELSE rgb888_to_rgb565(r, g, b)

\* The per-pixel loop of applyPalette from pixel i (0-based); cache is the
\* sparse array as a function on the keys stored so far, index the output
\* written so far (a Uint8Array: stores are taken modulo 256).
RECURSIVE applyPalette_loop(_, _, _, _, _, _)
applyPalette_loop(data, palette, format, i, cache, index) ==
    IF i >= Len(data) THEN index
    ELSE LET color == data[i + 1]
             key == applyPalette_key(format, color)
         IN  IF key \in DOMAIN cache
             THEN applyPalette_loop(data, palette, format, i + 1, cache,
                                    Append(index, cache[key] % 256))
             ELSE LET idx == IF format = "rgba4444"
                             THEN nearestColorIndexRGBA(
                                      color[1], color[2], color[3], color[4],
                                      palette)
                             ELSE nearestColorIndexRGB(
                                      color[1], color[2], color[3], palette)
                  IN  applyPalette_loop(data, palette, format, i + 1,
                                        cache @@ (key :> idx),
                                        Append(index, idx % 256))

\* applyPalette(rgba, palette, format): "threw" for a palette above 256
\* entries, else the index bytes.
applyPalette(data, palette, format) ==
    IF Len(palette) > 256
    THEN [threw |-> TRUE, index |-> <<>>]
    ELSE [threw |-> FALSE,
          index |-> applyPalette_loop(data, palette, format, 0, <<>>, <<>>)]

(***************************************************************************)
(* Exact rationals <<n, d>> (d > 0, lowest terms) for the quantizer's      *)
(* floating-point means, counts and errors.  HugeQ stands for 1e100.       *)
(***************************************************************************)
RECURSIVE Gcd(_, _)
Gcd(a, b) == IF b = 0 THEN a ELSE Gcd(b, a % b)

Abs(x) == IF x < 0 THEN -x ELSE x

QNorm(n, d) == LET g == Gcd(Abs(n), d) IN <<n \div g, d \div g>>

Q(n) == <<n, 1>>

HugeQ == <<Huge, 1>>

IsHuge(a) == a[1] >= Huge

QAdd(a, b) ==
    LET g == Gcd(a[2], b[2])
    IN  QNorm(a[1] * (b[2] \div g) + b[1] * (a[2] \div g),
              (a[2] \div g) * b[2])

QSub(a, b) == QAdd(a, <<-b[1], b[2]>>)

QMul(a, b) ==
    LET g1 == Gcd(Abs(a[1]), b[2])
        g2 == Gcd(Abs(b[1]), a[2])
    IN  QNorm((a[1] \div g1) * (b[1] \div g2),
              (a[2] \div g2) * (b[2] \div g1))

QDiv(a, b) == QMul(a, <<b[2], b[1]>>)

QLt(a, b) ==
    IF IsHuge(a) THEN FALSE
    ELSE IF IsHuge(b) THEN TRUE
    ELSE LET g == Gcd(a[2], b[2])
         IN  a[1] * (b[2] \div g) < b[1] * (a[2] \div g)

QLe(a, b) == ~QLt(b, a)

QSqr(a) == QMul(a, a)

\* Math.round, on a non-negative rational: floor(x + 0.5).
Round(a) == (2 * a[1] + a[2]) \div (2 * a[2])

clamp(value, min, max) ==
    IF value < min THEN min ELSE IF value > max THEN max ELSE value

\* Math.sqrt of a count, to the precision SqrtScale: the largest multiple of
\* 1 / SqrtScale whose square is at most n.
SqrtScale == 8

MathSqrt(a) ==
    LET m == a[1] * SqrtScale * SqrtScale
        k == CHOOSE x \in 0..m : x * x <= m /\ (x + 1) * (x + 1) > m
    IN  QNorm(k, SqrtScale)

(***************************************************************************)
(* pnnquant2: the histogram bins, find_nn and the heap.  bins[j] of the    *)
(* code is bins[j + 1] here; heap is a function on 0..maxbins + 1 with the *)
(* heap size in heap[0], as in the code.                                   *)
(***************************************************************************)
bincount(format) == IF format = "rgb444" THEN 4096 ELSE 65536

create_bin ==
    [ac |-> Q(0), rc |-> Q(0), gc |-> Q(0), bc |-> Q(0), cnt |-> Q(0),
     nn |-> 0, fw |-> 0, bk |-> 0, tm |-> 0, mtm |-> 0, err |-> Q(0)]

\* The histogram index create_bin_list computes for a pixel.
bin_index(format, color) ==
    IF format = "rgba4444"
    THEN rgba8888_to_rgba4444(color[1], color[2], color[3], color[4])
    ELSE IF format = "rgb444"
    THEN rgb888_to_rgb444(color[1], color[2], color[3])
    ELSE rgb888_to_rgb565(color[1], color[2], color[3])

\* The bin create_bin_list accumulates under one index: channel sums (alpha
\* only for rgba4444) and the pixel count.
RECURSIVE accumulate(_, _, _, _, _)
accumulate(data, format, index, i, bin) ==
    IF i > Len(data) THEN bin
    ELSE LET c == data[i]
         IN  IF bin_index(format, c) # index
             THEN accumulate(data, format, index, i + 1, bin)
             ELSE accumulate(data, format, index, i + 1,
                    [bin EXCEPT !.rc = QAdd(@, Q(c[1])),
                                !.gc = QAdd(@, Q(c[2])),
                                !.bc = QAdd(@, Q(c[3])),
                                !.ac = IF format = "rgba4444"
                                       THEN QAdd(@, Q(c[4])) ELSE @,
                                !.cnt = QAdd(@, Q(1))])

\* The non-empty bins of create_bin_list in increasing index order.
RECURSIVE sorted_indices(_)
sorted_indices(S) ==
    IF S = {} THEN <<>>
    ELSE LET m == CHOOSE x \in S : \A y \in S : x <= y
         IN  <<m>> \o sorted_indices(S \ {m})

create_bin_list(data, format) ==
    LET used == sorted_indices({bin_index(format, data[i]) : i \in 1..Len(data)})
    IN  [j \in 1..Len(used) |->
            accumulate(data, format, used[j], 1, create_bin)]

\* quantize, lines 770-781: sums become means, bins are already clustered
\* at the front.
normalize(bins, hasAlpha) ==
    [j \in 1..Len(bins) |->
        LET bin == bins[j]
        IN  [bin EXCEPT !.ac = IF hasAlpha THEN QDiv(@, bin.cnt) ELSE @,
                        !.rc = QDiv(@, bin.cnt),
                        !.gc = QDiv(@, bin.cnt),
                        !.bc = QDiv(@, bin.cnt)]]

\* quantize, lines 787-793: link the bins and take sqrt of the counts.
link(bins, useSqrt) ==
    [j \in 1..Len(bins) |->
        [bins[j] EXCEPT !.fw = IF j < Len(bins) THEN j ELSE 0,
                        !.bk = IF j > 1 THEN j - 2 ELSE 0,
                        !.cnt = IF useSqrt THEN MathSqrt(@) ELSE @]]

RECURSIVE find_nn_loop(_, _, _, _, _, _)
find_nn_loop(bins, idx, hasAlpha, i, nn, err) ==
    IF i = 0 THEN [nn |-> nn, err |-> err]
    ELSE LET bin1 == bins[idx + 1]
             bin == bins[i + 1]
             n1 == bin1.cnt
             n2 == bin.cnt
             nerr2 == QDiv(QMul(n1, n2), QAdd(n1, n2))
             ea == IF hasAlpha
                   THEN QMul(nerr2, QSqr(QSub(bin.ac, bin1.ac))) ELSE Q(0)
             er == QAdd(ea, QMul(nerr2, QSqr(QSub(bin.rc, bin1.rc))))
             eg == QAdd(er, QMul(nerr2, QSqr(QSub(bin.gc, bin1.gc))))
             eb == QAdd(eg, QMul(nerr2, QSqr(QSub(bin.bc, bin1.bc))))
         IN  IF \/ QLe(err, nerr2)
                \/ hasAlpha /\ QLe(err, ea)
                \/ QLe(err, er)
                \/ QLe(err, eg)
                \/ QLe(err, eb)
             THEN find_nn_loop(bins, idx, hasAlpha, bin.fw, nn, err)
             ELSE find_nn_loop(bins, idx, hasAlpha, bin.fw, i, eb)

find_nn(bins, idx, hasAlpha) ==
    LET r == find_nn_loop(bins, idx, hasAlpha, bins[idx + 1].fw, 0, HugeQ)
    IN  [bins EXCEPT ![idx + 1].err = r.err, ![idx + 1].nn = r.nn]

\* quantize, lines 803-809: push slot i on the heap (sift up).
RECURSIVE heap_up(_, _, _, _)
heap_up(heap, bins, l, err) ==
    IF l > 1
    THEN LET l2 == l \div 2
             h == heap[l2]
         IN  IF QLe(bins[h + 1].err, err) THEN <<heap, l>>
             ELSE heap_up([heap EXCEPT ![l] = h], bins, l2, err)
    ELSE <<heap, l>>

heap_push(heap, bins, i) ==
    LET n == heap[0] + 1
        r == heap_up([heap EXCEPT ![0] = n], bins, n, bins[i + 1].err)
    IN  [r[1] EXCEPT ![r[2]] = i]

\* quantize, lines 829-837: push slot b1 down from the root.
RECURSIVE heap_down(_, _, _, _)
heap_down(heap, bins, l, err) ==
    IF l + l <= heap[0]
    THEN LET l2 == IF /\ l + l < heap[0]
                      /\ QLt(bins[heap[l + l + 1] + 1].err,
                             bins[heap[l + l] + 1].err)
                   THEN l + l + 1 ELSE l + l
             h == heap[l2]
         IN  IF QLe(err, bins[h + 1].err) THEN <<heap, l>>
             ELSE heap_down([heap EXCEPT ![l] = h], bins, l2, err)
    ELSE <<heap, l>>

heap_push_down(heap, bins, b1) ==
    LET r == heap_down(heap, bins, 1, bins[b1 + 1].err)
    IN  [r[1] EXCEPT ![r[2]] = b1]

\* quantize, lines 799-810: nearest neighbours and heap of bins i..maxbins-1.
RECURSIVE init_nn(_, _, _)
init_nn(bins, heap, i) ==
    IF i >= Len(bins) THEN [bins |-> bins, heap |-> heap]
    ELSE LET b == find_nn(bins, i, FALSE)
         IN  init_nn(b, heap_push(heap, b, i), i + 1)

\* Mutant: two colors count as the same when their RGB agree (alpha is not
\* compared).
existsInPalette_rgbOnly(palette, color) ==
    \E i \in 1..Len(palette) :
        LET p == palette[i]
        IN  p[1] = color[1] /\ p[2] = color[2] /\ p[3] = color[3]

existsInPalette(palette, color) ==
    \E i \in 1..Len(palette) :
        LET p == palette[i]
            matchesRGB == p[1] = color[1] /\ p[2] = color[2] /\ p[3] = color[3]
            matchesAlpha == IF Len(p) >= 4 /\ Len(color) >= 4
                            THEN p[4] = color[4] ELSE TRUE
        IN  matchesRGB /\ matchesAlpha

\* quantize, lines 864-881: the palette color of one bin.
bin_color(bin, hasAlpha, opts) ==
    LET r0 == clamp(Round(bin.rc), 0, 255)
        g0 == clamp(Round(bin.gc), 0, 255)
        b0 == clamp(Round(bin.bc), 0, 255)
        a0 == clamp(Round(bin.ac), 0, 255)
        a1 == IF opts.oneBitAlpha
              THEN (IF a0 <= 127 THEN 0 ELSE 255) ELSE a0
        clear == opts.clearAlpha /\ a1 <= opts.clearAlphaThreshold
    IN  IF ~hasAlpha THEN <<r0, g0, b0>>
        ELSE IF clear
        THEN <<opts.clearAlphaColor, opts.clearAlphaColor,
               opts.clearAlphaColor, 0>>
        ELSE <<r0, g0, b0, a1>>

\* quantize, lines 862-886: walk the list from bin i and fill the palette.
RECURSIVE fill_palette(_, _, _, _, _)
fill_palette(bins, hasAlpha, opts, i, palette) ==
    LET color == bin_color(bins[i + 1], hasAlpha, opts)
        pal == IF existsInPalette(palette, color) THEN palette
               ELSE Append(palette, color)
    IN  IF bins[i + 1].fw = 0 THEN pal
        ELSE fill_palette(bins, hasAlpha, opts, bins[i + 1].fw, pal)

(***************************************************************************)
(* quantize as a state machine: QBuild runs lines 754-810 (histogram,      *)
(* means, links, nearest neighbours, heap); each QRefresh / QPop is one    *)
(* pass of the inner for (;;) that does not break; QMerge is the break and *)
(* the merge of lines 840-855; QFill is lines 858-888.                     *)
(***************************************************************************)
qzIdle ==
    [pc |-> "idle", data |-> <<>>, maxColors |-> 0, opts |-> <<>>,
     bins |-> <<>>, heap |-> <<>>, maxbins |-> 0, extbins |-> 0, i |-> 0,
     useSqrt |-> FALSE, palette |-> <<>>]

QzPixels == <<<<0, 0, 0, 255>>, <<7, 0, 0, 255>>, <<32, 16, 8, 100>>,
             <<0, 0, 0, 0>>, <<32, 16, 8, 0>>>>

\* The inputs of a call: the histogram sums do not depend on the order of
\* the pixels, so each multiset of pixels is drawn in one order.
QzInputs ==
    {[i \in 1..Len(s) |-> QzPixels[s[i]]] :
        s \in {t \in SeqsUpTo(1..Len(QzPixels), MaxPixels) :
                 \A i \in 1..(Len(t) - 1) : t[i] <= t[i + 1]}}

\* The options of a call: the alpha options are drawn for rgba4444 and left
\* at their defaults for the formats without alpha, which never read them.
QzOptions ==
    {[format |-> f, useSqrt |-> s, oneBitAlpha |-> o, clearAlpha |-> c,
      clearAlphaColor |-> 0, clearAlphaThreshold |-> 0] :
        f \in Formats, s \in BOOLEAN, o \in BOOLEAN, c \in BOOLEAN}

InitQuantize ==
    /\ \E data \in QzInputs :
       \E maxColors \in 0..MaxColors :
       \E opts \in QzOptions :
          /\ opts.format # "rgba4444" => ~opts.oneBitAlpha /\ opts.clearAlpha
          /\ qz = [qzIdle EXCEPT !.pc = "call", !.data = data,
                                 !.maxColors = maxColors, !.opts = opts]
    /\ ap = apIdle
    /\ enc = encIdle
    /\ encM = encIdle
    /\ hist = histIdle

QHasAlpha == qz.opts.format = "rgba4444"

QBuild ==
    /\ qz.pc = "call"
    /\ LET b0 == create_bin_list(qz.data, qz.opts.format)
           maxbins == Len(b0)
           \* sqr(maxColors) / maxbins < 0.022; x / 0 is Infinity or NaN
           useSqrt == /\ qz.opts.useSqrt
                      /\ ~(maxbins > 0
                           /\ 1000 * sqr(qz.maxColors) < 22 * maxbins)
           b1 == link(normalize(b0, QHasAlpha), useSqrt)
           r == init_nn(b1, [k \in 0..(maxbins + 1) |-> 0], 0)
       IN  IF maxbins = 0
           \* bins[0] is undefined: reading bins[0].cnt (line 793) or
           \* bins[0].rc (line 864) throws a TypeError
           THEN qz' = [qz EXCEPT !.pc = "threw"]
           ELSE qz' = [qz EXCEPT !.pc = "loop", !.bins = r.bins,
                                 !.heap = r.heap, !.maxbins = maxbins,
                                 !.extbins = maxbins - qz.maxColors,
                                 !.i = 0, !.useSqrt = useSqrt]
    /\ UNCHANGED <<ap, enc, encM, hist>>

\* The heap root b1 and the test of line 821.
QRoot == qz.heap[1]

QUpToDate ==
    LET tb == qz.bins[QRoot + 1]
    IN  tb.tm >= tb.mtm /\ qz.bins[tb.nn + 1].mtm <= tb.tm

QInLoop == qz.pc = "loop" /\ qz.i < qz.extbins

\* Lines 822-823 and 829-837: the root is a deleted node.
QPop ==
    /\ QInLoop
    /\ ~QUpToDate
    /\ qz.bins[QRoot + 1].mtm = bincount(qz.opts.format) - 1
    /\ LET last == qz.heap[qz.heap[0]]
           h1 == [qz.heap EXCEPT ![1] = last, ![0] = qz.heap[0] - 1]
       IN  qz' = [qz EXCEPT !.heap = heap_push_down(h1, qz.bins, last)]
    /\ UNCHANGED <<ap, enc, encM, hist>>

\* Lines 824-837: the root's error is too old.
QRefresh ==
    /\ QInLoop
    /\ ~QUpToDate
    /\ qz.bins[QRoot + 1].mtm # bincount(qz.opts.format) - 1
    /\ LET b1 == QRoot
           bn == [find_nn(qz.bins, b1, FALSE) EXCEPT ![b1 + 1].tm = qz.i]
       IN  qz' = [qz EXCEPT !.bins = bn,
                            !.heap = heap_push_down(qz.heap, bn, b1)]
    /\ UNCHANGED <<ap, enc, encM, hist>>

\* Mutant: the neighbour is unchained but not marked deleted.
merge_noTombstone(bins, b1, i, hasAlpha, bincountMinusOne) ==
    LET tb == bins[b1 + 1]
        nn == tb.nn
        nb == bins[nn + 1]
        s1 == [bins EXCEPT ![b1 + 1].cnt = QAdd(tb.cnt, nb.cnt),
                           ![b1 + 1].mtm = i + 1]
        s2 == [s1 EXCEPT ![s1[nn + 1].bk + 1].fw = s1[nn + 1].fw]
    IN  [s2 EXCEPT ![s2[nn + 1].fw + 1].bk = s2[nn + 1].bk]

\* Lines 840-855: merge the root tb with its neighbour nb = bins[tb.nn].
merge(bins, b1, i, hasAlpha, bincountMinusOne) ==
    LET tb == bins[b1 + 1]
        nn == tb.nn
        nb == bins[nn + 1]
        n1 == tb.cnt
        n2 == nb.cnt
        d == QDiv(Q(1), QAdd(n1, n2))
        avg(x, y) == QMul(d, QAdd(QMul(n1, x), QMul(n2, y)))
        s1 == [bins EXCEPT ![b1 + 1] =
                 [tb EXCEPT !.ac = IF hasAlpha THEN avg(tb.ac, nb.ac) ELSE @,
                            !.rc = avg(tb.rc, nb.rc),
                            !.gc = avg(tb.gc, nb.gc),
                            !.bc = avg(tb.bc, nb.bc),
                            !.cnt = QAdd(tb.cnt, nb.cnt),
                            !.mtm = i + 1]]
        s2 == [s1 EXCEPT ![s1[nn + 1].bk + 1].fw = s1[nn + 1].fw]
        s3 == [s2 EXCEPT ![s2[nn + 1].fw + 1].bk = s2[nn + 1].bk]
    IN  [s3 EXCEPT ![nn + 1].mtm = bincountMinusOne]

QMerge ==
    /\ QInLoop
    /\ QUpToDate
    /\ qz' = [qz EXCEPT
                !.bins = merge(qz.bins, QRoot, qz.i, QHasAlpha,
                               bincount(qz.opts.format) - 1),
                !.i = qz.i + 1]
    /\ UNCHANGED <<ap, enc, encM, hist>>

QFill ==
    /\ qz.pc = "loop"
    /\ qz.i >= qz.extbins
    /\ qz' = [qz EXCEPT !.pc = "done",
                        !.palette = fill_palette(qz.bins, QHasAlpha, qz.opts,
                                                 0, <<>>)]
    /\ UNCHANGED <<ap, enc, encM, hist>>

NextQuantize == QBuild \/ QPop \/ QRefresh \/ QMerge \/ QFill

SpecQuantize == InitQuantize /\ [][NextQuantize]_vars

(***************************************************************************)
(* The merge-loop specification: quantize called with 1 <= maxColors on    *)
(* images that fill up to five histogram bins of different weights, so     *)
(* that the loop makes several merges, refreshes stale errors and pops     *)
(* deleted nodes.  The image is any sub-multiset of QmPixels, drawn in one *)
(* order.                                                                  *)
(***************************************************************************)
QmPixels == <<<<0, 0, 0, 255>>, <<4, 0, 0, 255>>, <<8, 0, 0, 255>>,
             <<24, 4, 0, 255>>, <<24, 16, 0, 255>>, <<64, 32, 0, 255>>,
             <<0, 0, 0, 0>>>>

QmInputs ==
    {[i \in 1..Len(s) |-> QmPixels[s[i]]] :
        s \in {t \in SeqsUpTo(1..Len(QmPixels), Len(QmPixels)) :
                 \A i \in 1..(Len(t) - 1) : t[i] < t[i + 1]}}

InitMerge ==
    /\ \E data \in QmInputs :
       \E maxColors \in 1..MaxColors :
       \E format \in Formats :
       \E useSqrt \in BOOLEAN :
          qz = [qzIdle EXCEPT
                  !.pc = "call", !.data = data, !.maxColors = maxColors,
                  !.opts = [format |-> format, useSqrt |-> useSqrt,
                            oneBitAlpha |-> FALSE, clearAlpha |-> TRUE,
                            clearAlphaColor |-> 0, clearAlphaThreshold |-> 0]]
    /\ ap = apIdle
    /\ enc = encIdle
    /\ encM = encIdle
    /\ hist = histIdle

SpecMerge == InitMerge /\ [][NextQuantize]_vars

(***************************************************************************)
(* The output stream (stream.js) and the byte writers.  A text is the      *)
(* sequence of its character codes.                                        *)
(***************************************************************************)
GIF89a == <<71, 73, 70, 56, 57, 97>>

NETSCAPE20 == <<78, 69, 84, 83, 67, 65, 80, 69, 50, 46, 48>>

writeByte(stream, b) == Append(stream, b % 256)

writeBytes(stream, bytes) ==
    stream \o [i \in 1..Len(bytes) |-> bytes[i] % 256]

writeUInt16(stream, short) ==
    writeByte(writeByte(stream, BitAnd(short, 255)),
              BitAnd(Shr(short, 8), 255))

writeUTFBytes(stream, text) == writeBytes(stream, text)

\* Math.ceil(Math.log2(length)) for length >= 1.
CeilLog2(length) ==
    CHOOSE k \in 0..31 : Pow2(k) >= length /\ (k = 0 \/ Pow2(k - 1) < length)

\* Mutant: Math.floor for Math.ceil.
colorTableSize_floor(length) ==
    IF length = 0 THEN 1
    ELSE Max(CHOOSE k \in 0..31 : Pow2(k) <= length /\ Pow2(k + 1) > length, 1)

\* Math.log2(0) is -Infinity, so the maximum with 1 is 1.
colorTableSize(length) ==
    IF length = 0 THEN 1 ELSE Max(CeilLog2(length), 1)

(***************************************************************************)
(* lzwEncode: GIF LZW of an index stream into sub-blocks.                  *)
(***************************************************************************)
RECURSIVE lzw_bits(_, _)
lzw_bits(code, n) ==
    IF n = 0 THEN <<>> ELSE <<code % 2>> \o lzw_bits(code \div 2, n - 1)

RECURSIVE lzw_byte(_)
lzw_byte(bits) ==
    IF bits = <<>> THEN 0 ELSE Head(bits) + 2 * lzw_byte(Tail(bits))

RECURSIVE lzw_pack(_)
lzw_pack(bits) ==
    IF bits = <<>> THEN <<>>
    ELSE LET n == Min(8, Len(bits))
         IN  <<lzw_byte(SubSeq(bits, 1, n))>>
             \o lzw_pack(SubSeq(bits, n + 1, Len(bits)))

\* The code bits from pixel i on: ent is the current prefix, dict the
\* (prefix, suffix) -> code table, free_ent the next free code, n_bits the
\* current code width, init_bits the initial one.
RECURSIVE lzw_codes(_, _, _, _, _, _, _)
lzw_codes(index, i, ent, dict, free_ent, n_bits, init_bits) ==
    LET clearCode == Pow2(init_bits - 1)
        EOI == clearCode + 1
    IN  IF i > Len(index)
        THEN lzw_bits(ent, n_bits) \o lzw_bits(EOI, n_bits)
        ELSE LET c == index[i]
             IN  IF <<ent, c>> \in DOMAIN dict
                 THEN lzw_codes(index, i + 1, dict[<<ent, c>>], dict,
                                free_ent, n_bits, init_bits)
                 ELSE IF free_ent < 4096
                 THEN lzw_bits(ent, n_bits)
                      \o lzw_codes(index, i + 1, c,
                            dict @@ (<<ent, c>> :> free_ent), free_ent + 1,
                            IF free_ent + 1 > Pow2(n_bits) /\ n_bits < 12
                            THEN n_bits + 1 ELSE n_bits,
                            init_bits)
                 ELSE lzw_bits(ent, n_bits) \o lzw_bits(clearCode, n_bits)
                      \o lzw_codes(index, i + 1, c, <<>>, EOI + 1,
                                   init_bits, init_bits)

RECURSIVE lzw_subblocks(_)
lzw_subblocks(bytes) ==
    IF bytes = <<>> THEN <<>>
    ELSE LET n == Min(254, Len(bytes))
         IN  <<n>> \o SubSeq(bytes, 1, n)
             \o lzw_subblocks(SubSeq(bytes, n + 1, Len(bytes)))

lzwEncode(index, colorDepth, stream) ==
    LET minCodeSize == Max(colorDepth, 2)
        init_bits == minCodeSize + 1
        clearCode == Pow2(init_bits - 1)
        bits == lzw_bits(clearCode, init_bits)
                \o lzw_codes(index, 2, index[1], <<>>, clearCode + 2,
                             init_bits, init_bits)
    IN  writeByte(writeBytes(writeByte(stream, minCodeSize),
                             lzw_subblocks(lzw_pack(bits))), 0)

(***************************************************************************)
(* GIFEncoder: the block writers.                                          *)
(***************************************************************************)
writeHeader(stream) == writeUTFBytes(stream, GIF89a)

encodeGraphicControlExt(stream, dispose, delay, transparent, transparentIndex) ==
    LET transIndex == IF transparentIndex < 0 THEN 0 ELSE transparentIndex
        isTransparent == IF transparentIndex < 0 THEN FALSE ELSE transparent
        transp == IF isTransparent THEN 1 ELSE 0
        disp0 == IF isTransparent THEN 2 ELSE 0
        disp == Shl(IF dispose >= 0 THEN BitAnd(dispose, 7) ELSE disp0, 2)
        s1 == writeByte(writeByte(writeByte(stream, 33), 249), 4)
        s2 == writeByte(s1, BitOr(BitOr(BitOr(0, disp), 0), transp))
        s3 == writeByte(s2, transIndex)
    IN  writeByte(writeUInt16(s3, delay), 0)

encodeLogicalScreenDescriptor(stream, width, height, palette, colorDepth) ==
    LET globalColorTableSize == colorTableSize(Len(palette)) - 1
        fields == BitOr(BitOr(BitOr(Shl(1, 7), Shl(colorDepth - 1, 4)),
                              Shl(0, 3)),
                        globalColorTableSize)
    IN  writeBytes(writeUInt16(writeUInt16(stream, width), height),
                   <<fields, 0, 0>>)

\* Mutant: the loop count is written as one byte.
encodeNetscapeExt_short(stream, repeat) ==
    LET s1 == writeByte(writeByte(writeByte(stream, 33), 255), 11)
        s2 == writeByte(writeByte(writeUTFBytes(s1, NETSCAPE20), 3), 1)
    IN  writeByte(writeByte(s2, repeat), 0)

encodeNetscapeExt(stream, repeat) ==
    LET s1 == writeByte(writeByte(writeByte(stream, 33), 255), 11)
        s2 == writeByte(writeByte(writeUTFBytes(s1, NETSCAPE20), 3), 1)
    IN  writeByte(writeUInt16(s2, repeat), 0)

\* The bytes of the loop's i-th round (i from 0): the entry's R, G, B, or
\* three zeros past the end of the palette.
encodeColorTable_loop(palette, i) ==
    IF i < Len(palette) THEN palette[i + 1] ELSE <<0, 0, 0>>

encodeColorTable(stream, palette) ==
    LET colorTableLength == Shl(1, colorTableSize(Len(palette)))
    IN  writeBytes(stream,
            [k \in 1..(3 * colorTableLength) |->
                encodeColorTable_loop(palette, (k - 1) \div 3)[((k - 1) % 3) + 1]])

\* localPalette is null exactly when hasLocal is FALSE.
encodeImageDescriptor(stream, width, height, hasLocal, localPalette) ==
    LET s1 == writeByte(stream, 44)
        s2 == writeUInt16(writeUInt16(writeUInt16(writeUInt16(s1, 0), 0),
                                      width), height)
    IN  IF hasLocal
        THEN writeByte(s2, BitOr(BitOr(BitOr(BitOr(128, 0), 0), 0),
                                 colorTableSize(Len(localPalette)) - 1))
        ELSE writeByte(s2, 0)

encodePixels(stream, index, colorDepth) == lzwEncode(index, colorDepth, stream)

\* Mutant: manual mode takes every frame for a first frame.
writeFrame_first_always(auto, hasInit, opts) ==
    IF auto THEN ~hasInit ELSE TRUE

\* Mutant: manual mode never takes a frame for a first frame.
writeFrame_first_never(auto, hasInit, opts) ==
    IF auto THEN ~hasInit ELSE FALSE

\* writeFrame, lines 318-334: whether this frame is the first.
writeFrame_first(auto, hasInit, opts) ==
    IF auto THEN ~hasInit ELSE opts.first

\* writeFrame(index, width, height, opts) on encoder e: the encoder after
\* the call and whether the call threw.  opts carries every option with its
\* default filled in; opts.hasPalette is FALSE for palette = null.
writeFrame(e, index, width, height, opts) ==
    LET first == writeFrame_first(e.auto, e.hasInit, opts)
        e1 == IF e.auto /\ ~e.hasInit
              THEN [e EXCEPT !.stream = writeHeader(e.stream),
                             !.hasInit = TRUE]
              ELSE e
        frameWidth == Max(0, width)
        frameHeight == Max(0, height)
        s1 == encodeColorTable(
                  encodeLogicalScreenDescriptor(e1.stream, frameWidth,
                      frameHeight, opts.palette, opts.colorDepth),
                  opts.palette)
        s2 == IF ~first THEN e1.stream
              ELSE IF opts.repeat >= 0 THEN encodeNetscapeExt(s1, opts.repeat)
              ELSE s1
        delayTime == (opts.delay + 5) \div 10
        s3 == encodeGraphicControlExt(s2, opts.dispose, delayTime,
                                      opts.transparent, opts.transparentIndex)
        useLocalColorTable == opts.hasPalette /\ ~first
        s4 == encodeImageDescriptor(s3, frameWidth, frameHeight,
                                    useLocalColorTable, opts.palette)
        s5 == IF useLocalColorTable THEN encodeColorTable(s4, opts.palette)
              ELSE s4
    IN  IF first /\ ~opts.hasPalette
        THEN [enc |-> e1, threw |-> TRUE]
        ELSE [enc |-> [e1 EXCEPT !.stream =
                          encodePixels(s5, index, opts.colorDepth)],
              threw |-> FALSE]

reset(e) == [e EXCEPT !.stream = <<>>, !.hasInit = FALSE]

finish(e) == [e EXCEPT !.stream = writeByte(e.stream, 59)]

(***************************************************************************)
(* The encoder specification: one GIFEncoder, built in auto or in manual   *)
(* mode, and a caller making up to MaxCalls calls between resets.  hist    *)
(* records the calls made since construction or the last reset(): each     *)
(* call's arguments, whether it threw, and the stream length before and    *)
(* after it.                                                               *)
(***************************************************************************)
\* A palette of n entries with non-zero channel bytes, no two entries alike.
Pal(n) ==
    [i \in 1..n |-> <<(i % 255) + 1, ((3 * i) % 255) + 1, ((7 * i) % 255) + 1>>]

PaletteLens == {1, 2, 3, 5}

\* The options apart from palette and first, with the frame they go with.
Profile(repeat) ==
    IF repeat = 0
    THEN [index |-> <<0>>, width |-> 1, height |-> 1,
          opts |-> [repeat |-> 0, transparent |-> FALSE,
                    transparentIndex |-> 0, delay |-> 0, colorDepth |-> 8,
                    dispose |-> -1]]
    ELSE IF repeat = -1
    THEN [index |-> <<0, 1>>, width |-> 2, height |-> 1,
          opts |-> [repeat |-> -1, transparent |-> TRUE,
                    transparentIndex |-> 1, delay |-> 105, colorDepth |-> 8,
                    dispose |-> -1]]
    ELSE [index |-> <<1, 1>>, width |-> 1, height |-> 2,
          opts |-> [repeat |-> repeat, transparent |-> TRUE,
                    transparentIndex |-> -1, delay |-> 20, colorDepth |-> 2,
                    dispose |-> 1]]

WithPalette(call, hasPalette, palette, first) ==
    [call EXCEPT !.opts = [repeat |-> @.repeat, transparent |-> @.transparent,
                           transparentIndex |-> @.transparentIndex,
                           delay |-> @.delay, colorDepth |-> @.colorDepth,
                           dispose |-> @.dispose, hasPalette |-> hasPalette,
                           palette |-> palette, first |-> first]]

\* The writeFrame calls the caller draws from; auto mode does not read
\* opts.first, so it is drawn only in manual mode.
Calls(auto) ==
    {WithPalette(Profile(repeat), FALSE, <<>>, first) :
        repeat \in {0, -1, 3}, first \in (IF auto THEN {FALSE} ELSE BOOLEAN)}
    \cup
    {WithPalette(Profile(repeat), TRUE, Pal(n), first) :
        repeat \in {0, -1, 3}, n \in PaletteLens,
        first \in (IF auto THEN {FALSE} ELSE BOOLEAN)}

NoCall == WithPalette(Profile(0), FALSE, <<>>, FALSE)

Record(op, call, threw, before, after) ==
    [op |-> op, call |-> call, threw |-> threw, start |-> Len(before),
     end |-> Len(after)]

Init ==
    /\ \E auto \in BOOLEAN : enc = GIFEncoder(auto)
    /\ encM = encIdle
    /\ hist = histIdle
    /\ ap = apIdle
    /\ qz = qzIdle

WriteFrame ==
    /\ Len(hist.epoch) < MaxCalls
    /\ \E c \in Calls(enc.auto) :
          LET r == writeFrame(enc, c.index, c.width, c.height, c.opts)
          IN  /\ enc' = r.enc
              /\ hist' = [hist EXCEPT !.epoch =
                            Append(@, Record("writeFrame", c, r.threw,
                                             enc.stream, r.enc.stream))]
    /\ UNCHANGED <<ap, qz, encM>>

\* The caller writes the header itself, before the frames.
WriteHeader ==
    /\ hist.epoch = <<>>
    /\ enc' = [enc EXCEPT !.stream = writeHeader(enc.stream)]
    /\ hist' = [hist EXCEPT !.epoch =
                  Append(@, Record("writeHeader", NoCall, FALSE, enc.stream,
                                   enc'.stream))]
    /\ UNCHANGED <<ap, qz, encM>>

Finish ==
    /\ Len(hist.epoch) < MaxCalls
    /\ enc' = finish(enc)
    /\ hist' = [hist EXCEPT !.epoch =
                  Append(@, Record("finish", NoCall, FALSE, enc.stream,
                                   enc'.stream))]
    /\ UNCHANGED <<ap, qz, encM>>

Reset ==
    /\ hist.resets < MaxResets
    /\ enc' = reset(enc)
    /\ hist' = [epoch |-> <<>>, resets |-> hist.resets + 1]
    /\ UNCHANGED <<ap, qz, encM>>

Next == WriteFrame \/ WriteHeader \/ Finish \/ Reset

Spec == Init /\ [][Next]_vars

(***************************************************************************)
(* The pair specification: an auto-mode encoder enc and a manual-mode      *)
(* encoder encM given the same writeFrame calls; on encM the caller calls  *)
(* writeHeader() first and passes first: true on the first frame only.     *)
(***************************************************************************)
InitPair ==
    /\ enc = GIFEncoder(TRUE)
    /\ encM = GIFEncoder(FALSE)
    /\ hist = histIdle
    /\ ap = apIdle
    /\ qz = qzIdle

PairWriteHeader ==
    /\ encM.stream = <<>>
    /\ encM' = [encM EXCEPT !.stream = writeHeader(encM.stream)]
    /\ UNCHANGED <<ap, qz, enc, hist>>

PairWriteFrame ==
    /\ encM.stream # <<>>
    /\ Len(hist.epoch) < MaxFrames
    /\ \E c \in Calls(TRUE) :
          LET cM == [c EXCEPT !.opts.first = (hist.epoch = <<>>)]
              r == writeFrame(enc, c.index, c.width, c.height, c.opts)
              rM == writeFrame(encM, cM.index, cM.width, cM.height, cM.opts)
          IN  /\ enc' = r.enc
              /\ encM' = rM.enc
              /\ hist' = [hist EXCEPT !.epoch =
                            Append(@, [Record("writeFrame", c, r.threw,
                                              enc.stream, r.enc.stream)
                                       EXCEPT !.threw = <<r.threw, rM.threw>>])]
    /\ UNCHANGED <<ap, qz>>

NextPair == PairWriteHeader \/ PairWriteFrame

SpecPair == InitPair /\ [][NextPair]_vars

(***************************************************************************)
(* The colour-table specification: one encoder, auto or manual, and a      *)
(* caller that writes up to TableCalls frames of one animation, all with   *)
(* the same palette (of any length 1..256) and the same options; in manual *)
(* mode the caller chooses first for each frame.                           *)
(***************************************************************************)
InitTable ==
    /\ \E auto \in BOOLEAN : enc = GIFEncoder(auto)
    /\ encM = encIdle
    /\ hist = histIdle
    /\ ap = apIdle
    /\ qz = qzIdle

TableCallsOf(L, repeat, auto) ==
    {WithPalette(Profile(repeat), TRUE, Pal(L), first) :
        first \in (IF auto THEN {FALSE} ELSE BOOLEAN)}

TableWriteFrame ==
    /\ Len(hist.epoch) < TableCalls
    /\ \E c \in (IF hist.epoch = <<>>
                 THEN UNION {TableCallsOf(L, repeat, enc.auto) :
                                L \in 1..256, repeat \in {0, -1, 3}}
                 ELSE TableCallsOf(Len(hist.epoch[1].call.opts.palette),
                                   hist.epoch[1].call.opts.repeat, enc.auto)) :
          LET r == writeFrame(enc, c.index, c.width, c.height, c.opts)
          IN  /\ enc' = r.enc
              /\ hist' = [hist EXCEPT !.epoch =
                            Append(@, Record("writeFrame", c, r.threw,
                                             enc.stream, r.enc.stream))]
    /\ UNCHANGED <<ap, qz, encM>>

NextTable == TableWriteFrame

SpecTable == InitTable /\ [][NextTable]_vars

(***************************************************************************)
(* Claims about quantize.                                                  *)
(***************************************************************************)
\* maxbins: the number of non-empty histogram bins of the input.
QMaxbins ==
    Cardinality({bin_index(qz.opts.format, qz.data[i]) :
                    i \in 1..Len(qz.data)})

QReturned == qz.pc = "done"

QEnded == qz.pc \in {"done", "threw"}

\* C1: for every RGBA input (including an empty one), every maxColors N
\* and every supported format, quantize returns a palette with at most N
\* entries.
C1_PaletteAtMostN ==
    QEnded => QReturned /\ Len(qz.palette) <= qz.maxColors

\* What the code does keep: a non-empty input and N >= 1 give a palette of
\* 1..N entries.
QuantizeAtMostN_NonEmpty ==
    QEnded /\ Len(qz.data) >= 1 /\ qz.maxColors >= 1 =>
        QReturned /\ Len(qz.palette) \in 1..qz.maxColors

\* C9 (as stated): when maxColors > maxbins, quantize performs no merge and
\* returns a palette with exactly maxbins entries, for every format and
\* option set.
C9_Original ==
    QReturned /\ qz.maxColors > QMaxbins =>
        qz.i = 0 /\ Len(qz.palette) = QMaxbins

\* C9 (amended): for a non-empty input with maxColors > maxbins, quantize
\* performs no merge and returns at most maxbins entries, one per distinct
\* output color of the bins; exactly maxbins entries for rgb565 and rgb444,
\* and for rgba4444 when clearAlpha and oneBitAlpha are both off.
C9_NoMergeAtMostMaxbins ==
    QReturned /\ qz.maxColors > QMaxbins =>
        /\ qz.i = 0
        /\ qz.maxbins = QMaxbins
        /\ Len(qz.palette) <= QMaxbins
        /\ Len(qz.palette)
             = Cardinality({bin_color(qz.bins[j], QHasAlpha, qz.opts) :
                               j \in 1..Len(qz.bins)})
        /\ (~QHasAlpha \/ (~qz.opts.clearAlpha /\ ~qz.opts.oneBitAlpha))
              => Len(qz.palette) = QMaxbins

C9_Witness ==
    /\ QReturned
    /\ qz.maxColors > QMaxbins
    /\ QMaxbins >= 2
    /\ QHasAlpha
    /\ qz.opts.oneBitAlpha
    /\ ~qz.opts.clearAlpha
    /\ Len(qz.palette) < QMaxbins

(***************************************************************************)
(* The applyPalette specification: Init draws the call's arguments, the    *)
(* action ApplyPalette runs the call.                                      *)
(***************************************************************************)
ApPixels == {<<0, 0, 0, 255>>, <<4, 0, 0, 255>>, <<7, 0, 0, 255>>,
             <<16, 0, 3, 255>>}

ApColors(format) ==
    IF format = "rgba4444"
    THEN {<<0, 0, 0, 255>>, <<8, 0, 0, 255>>, <<7, 0, 0, 255>>, <<4, 0, 0, 0>>}
    ELSE {<<0, 0, 0>>, <<8, 0, 0>>, <<7, 0, 0>>, <<4, 4, 0>>}

InitApply ==
    /\ \E format \in Formats :
       \E data \in SeqsUpTo(ApPixels, MaxPixels) :
       \E palette \in SeqsUpTo(ApColors(format), MaxPalette) :
          ap = [apIdle EXCEPT !.pc = "call", !.data = data,
                              !.palette = palette, !.format = format]
    /\ qz = qzIdle
    /\ enc = encIdle
    /\ encM = encIdle
    /\ hist = histIdle

ApplyPalette ==
    /\ ap.pc = "call"
    /\ ap' = [ap EXCEPT !.pc = "done",
                        !.out = applyPalette(ap.data, ap.palette, ap.format)]
    /\ UNCHANGED <<qz, enc, encM, hist>>

NextApply == ApplyPalette

SpecApply == InitApply /\ [][NextApply]_vars

(***************************************************************************)
(* Claims about applyPalette.                                              *)
(***************************************************************************)
\* The squared Euclidean distance of the claim: over r, g, b, plus a for
\* rgba4444.
Dist(format, c, p) ==
    sqr(p[1] - c[1]) + sqr(p[2] - c[2]) + sqr(p[3] - c[3])
    + (IF format = "rgba4444" THEN sqr(p[4] - c[4]) ELSE 0)

\* The palette indices (0-based) at minimum distance from color c.
NearestSet(format, palette, c) ==
    {k \in 0..(Len(palette) - 1) :
        \A j \in 0..(Len(palette) - 1) :
            Dist(format, c, palette[k + 1]) <= Dist(format, c, palette[j + 1])}

SetMax(S) == CHOOSE x \in S : \A y \in S : y <= x

SetMin(S) == CHOOSE x \in S : \A y \in S : x <= y

\* The first pixel (1-based position) whose cache key is that of pixel i.
FirstWithKey(i) ==
    SetMin({j \in 1..i : applyPalette_key(ap.format, ap.data[j])
                          = applyPalette_key(ap.format, ap.data[i])})

ApDone == ap.pc = "done" /\ ~ap.out.threw

\* C2 (as stated): for every palette, of any length 0..256, every byte of
\* applyPalette's output is an index in [0, |P| - 1].
C2_Original ==
    ApDone => \A i \in 1..Len(ap.out.index) :
                 ap.out.index[i] \in 0..(Len(ap.palette) - 1)

\* C2 (amended): for every palette of length at least 1 the output has one
\* byte per pixel and every byte is an index in [0, |P| - 1]; for the empty
\* palette every byte is 0.
C2_IndexInRange ==
    ApDone =>
        /\ Len(ap.out.index) = Len(ap.data)
        /\ \A i \in 1..Len(ap.out.index) :
              IF Len(ap.palette) >= 1
              THEN ap.out.index[i] \in 0..(Len(ap.palette) - 1)
              ELSE ap.out.index[i] = 0

C2_Witness ==
    /\ ApDone
    /\ Len(ap.palette) >= 2
    /\ Len(ap.data) >= 2
    /\ \E i \in 1..Len(ap.out.index) : ap.out.index[i] = Len(ap.palette) - 1

\* C3 (as stated): every pixel's output index is a palette entry at minimum
\* distance from that pixel's own color, whatever pixels precede it.
C3_Original ==
    ApDone /\ Len(ap.palette) >= 1 =>
        \A i \in 1..Len(ap.out.index) :
            ap.out.index[i] \in NearestSet(ap.format, ap.palette, ap.data[i])

\* C3 (amended): every pixel's output index is a palette entry at minimum
\* distance from the color of the first pixel of the input that has the
\* same cache key; so a pixel that is the first with its key gets an entry
\* nearest to its own color.
C3_NearestOfFirstWithKey ==
    ApDone /\ Len(ap.palette) >= 1 =>
        \A i \in 1..Len(ap.out.index) :
            ap.out.index[i]
                \in NearestSet(ap.format, ap.palette, ap.data[FirstWithKey(i)])

C3_Witness ==
    /\ ApDone
    /\ Len(ap.palette) >= 2
    /\ \E i \in 1..Len(ap.out.index) :
          /\ FirstWithKey(i) < i
          /\ ap.data[FirstWithKey(i)] # ap.data[i]
          /\ ap.out.index[i]
                \notin NearestSet(ap.format, ap.palette, ap.data[i])

\* The pixels the scan ran for: the first of each cache key.
Scanned == {i \in 1..Len(ap.out.index) : FirstWithKey(i) = i}

\* C4 (as stated): among palette entries tied at the minimum distance the
\* scan returns the earliest index.
C4_Original ==
    ApDone /\ Len(ap.palette) >= 1 =>
        \A i \in Scanned :
            ap.out.index[i]
                = SetMin(NearestSet(ap.format, ap.palette, ap.data[i]))

\* C4 (amended): among palette entries tied at the minimum distance the
\* scan (RGB and RGBA) returns the latest (largest) index.
C4_TiesToLatest ==
    ApDone /\ Len(ap.palette) >= 1 =>
        \A i \in Scanned :
            ap.out.index[i]
                = SetMax(NearestSet(ap.format, ap.palette, ap.data[i]))

C4_Witness ==
    /\ ApDone
    /\ \E i \in Scanned :
          /\ Cardinality(NearestSet(ap.format, ap.palette, ap.data[i])) >= 2
          /\ ap.out.index[i] >= 1


(***************************************************************************)
(* Claims about GIFEncoder.  They read the stream byte by byte at the      *)
(* offsets the GIF89a layout fixes: signature 6 bytes, Logical Screen      *)
(* Descriptor 7, Graphic Control Extension 8, Image Descriptor 10.         *)
(***************************************************************************)
Occurs(s, pat, i) ==
    /\ i >= 1
    /\ i + Len(pat) - 1 <= Len(s)
    /\ SubSeq(s, i, i + Len(pat) - 1) = pat

Positions(s, pat) == {i \in 1..Len(s) : Occurs(s, pat, i)}

\* max(ceil(log2 L), 1) for 1 <= L <= 256, by its meaning: the least k >= 1
\* with 2^k >= L.
TableBits(L) == CHOOSE k \in 1..8 : Pow2(k) >= L /\ (k = 1 \/ Pow2(k - 1) < L)

Calls_ == DOMAIN hist.epoch

OnlyFrames == \A k \in Calls_ : hist.epoch[k].op = "writeFrame"

\* Call k is a first frame as the claims define it: in auto mode the first
\* writeFrame since construction or the last reset(), in manual mode a
\* writeFrame with opts.first true.
IsFirstFrame(k) ==
    IF enc.auto
    THEN \A j \in 1..(k - 1) : hist.epoch[j].op # "writeFrame"
    ELSE hist.epoch[k].call.opts.first

AppExtNetscape == <<33, 255, 11>> \o NETSCAPE20

GceIntro == <<33, 249, 4>>

\* C5: a manual-mode encoder on which the caller called writeHeader() and
\* then writeFrame with first: true on the first frame only holds, after
\* every frame, the same byte stream as an auto-mode encoder given the same
\* writeFrame calls (and the two calls fail together).
C5_ManualEqualsAuto ==
    hist.epoch # <<>> =>
        /\ encM.stream = enc.stream
        /\ \A k \in Calls_ : hist.epoch[k].threw[1] = hist.epoch[k].threw[2]

\* Three frames written by both, the later ones with a palette of their own
\* (a local colour table).
C5_Witness ==
    /\ Len(hist.epoch) = 3
    /\ ~encM.auto /\ enc.auto
    /\ \A k \in Calls_ : hist.epoch[k].threw = <<FALSE, FALSE>>
    /\ hist.epoch[2].call.opts.hasPalette
    /\ ~hist.epoch[3].call.opts.hasPalette
    /\ Len(enc.stream) > 60

C6_Case ==
    /\ enc.auto
    /\ Len(hist.epoch) >= 2
    /\ OnlyFrames
    /\ \A k \in Calls_ : /\ hist.epoch[k].call.opts.repeat = 0
                         /\ ~hist.epoch[k].threw

\* C6: in auto mode, after two or more frames written with repeat = 0 the
\* stream holds exactly one NETSCAPE2.0 application extension; it starts
\* right after the Global Color Table, its loop count bytes are 00 00, and
\* the first Graphic Control Extension of the stream follows it.
C6_OneNetscapeBlock ==
    C6_Case =>
        LET L == Len(hist.epoch[1].call.opts.palette)
            p == 6 + 7 + 3 * Pow2(TableBits(L)) + 1
        IN  /\ Positions(enc.stream, AppExtNetscape) = {p}
            /\ Occurs(enc.stream, <<3, 1, 0, 0, 0>>, p + 14)
            /\ Occurs(enc.stream, GceIntro, p + 19)
            /\ \A i \in Positions(enc.stream, GceIntro) : i >= p + 19

C6_Witness ==
    /\ C6_Case
    /\ Len(hist.epoch[1].call.opts.palette) = 3
    /\ hist.epoch[2].call.opts.hasPalette
    /\ Cardinality(Positions(enc.stream, GceIntro)) = 2

\* The colour table a frame's call writes, as the claim places it: the
\* global table of a first frame after the (auto-mode) signature and the
\* Logical Screen Descriptor, whose packed byte is its 5th; the local table
\* of a later frame after the Graphic Control Extension and the Image
\* Descriptor, whose packed byte is its 10th.
TableAt(k) ==
    LET r == hist.epoch[k]
        base == r.start + (IF enc.auto /\ IsFirstFrame(k) THEN 6 ELSE 0)
    IN  IF IsFirstFrame(k)
        THEN [global |-> TRUE, packed |-> base + 5, table |-> base + 8]
        ELSE [global |-> FALSE, packed |-> base + 18, table |-> base + 19]

C7_TableOf(k) ==
    LET r == hist.epoch[k]
        palette == r.call.opts.palette
        L == Len(palette)
        tableBits == TableBits(L)
        t == TableAt(k)
        after == t.table + 3 * Pow2(tableBits)
    IN  /\ enc.stream[t.packed] \div 128 = 1
        /\ enc.stream[t.packed] % 8 = tableBits - 1
        /\ \A j \in 0..(Pow2(tableBits) - 1) : \A ch \in 1..3 :
              enc.stream[t.table + 3 * j + ch - 1] =
                  (IF j < L THEN palette[j + 1][ch] ELSE 0)
        \* the table ends there: an extension block follows a global table,
        \* the LZW minimum code size a local one
        /\ enc.stream[after] =
              (IF t.global THEN 33 ELSE Max(r.call.opts.colorDepth, 2))
        /\ t.global => enc.stream[after + 1] \in {255, 249}

\* C7: a palette of length L, 1 <= L <= 256, written as a global or local
\* colour table takes 2^tableBits entries with tableBits =
\* max(ceil(log2 L), 1): the palette's R, G, B bytes in order, then 0, 0, 0
\* entries; the low three bits of the packed byte declaring the table (of
\* the Logical Screen Descriptor or of the Image Descriptor) are
\* tableBits - 1.
C7_ColorTable ==
    \A k \in Calls_ :
        (hist.epoch[k].call.opts.hasPalette /\ ~hist.epoch[k].threw)
            => C7_TableOf(k)

\* A 200-entry palette written twice by an auto-mode encoder: as the
\* global table of the first frame and as the local table of the second,
\* each padded to 256 entries.
C7_Witness ==
    /\ enc.auto
    /\ Len(hist.epoch) = 2
    /\ Len(hist.epoch[1].call.opts.palette) = 200
    /\ TableAt(1).global /\ ~TableAt(2).global
    /\ Len(enc.stream) > 2 * 768

\* C8: writeFrame fails exactly when the frame is a first frame and no
\* palette is supplied; a frame that is not first and has no palette does
\* not fail and is written with no local colour table (Image Descriptor
\* packed byte 0, the pixel data right after it), so against the global
\* one.
C8_FailsIffFirstWithoutPalette ==
    \A k \in Calls_ :
        LET r == hist.epoch[k]
        IN  r.op = "writeFrame" =>
              /\ r.threw <=> (IsFirstFrame(k) /\ ~r.call.opts.hasPalette)
              /\ (~IsFirstFrame(k) /\ ~r.call.opts.hasPalette) =>
                    /\ Occurs(enc.stream, GceIntro, r.start + 1)
                    /\ enc.stream[r.start + 9] = 44
                    /\ enc.stream[r.start + 18] = 0
                    /\ enc.stream[r.start + 19] = Max(r.call.opts.colorDepth, 2)
                    /\ enc.stream[r.end] = 0

\* A first frame with a palette, then a frame without one, on an auto-mode
\* encoder.
C8_Witness ==
    /\ enc.auto
    /\ Len(hist.epoch) = 2
    /\ OnlyFrames
    /\ ~hist.epoch[1].threw
    /\ ~hist.epoch[2].call.opts.hasPalette
    /\ ~hist.epoch[2].threw
    /\ hist.epoch[2].end > hist.epoch[2].start

\* The signature, Logical Screen Descriptor and Global Color Table that the
\* first writeFrame of an epoch is to write.
Prelude(call) ==
    encodeColorTable(
        encodeLogicalScreenDescriptor(GIF89a, Max(0, call.width),
            Max(0, call.height), call.opts.palette, call.opts.colorDepth),
        call.opts.palette)

\* C10: in auto mode, over any sequence of writeFrame and reset() calls,
\* every frame present in the stream is preceded, within its epoch, by
\* exactly one GIF89a signature immediately followed by the Logical Screen
\* Descriptor and the Global Color Table, all written by the first
\* writeFrame of the epoch and by no later one; after reset() the stream is
\* empty and the next writeFrame is a first frame again.
C10_OnePreludePerEpoch ==
    (enc.auto /\ OnlyFrames) =>
        /\ (\E k \in Calls_ : ~hist.epoch[k].threw) =>
              /\ Occurs(enc.stream, Prelude(hist.epoch[1].call), 1)
              /\ hist.epoch[1].end >= Len(Prelude(hist.epoch[1].call))
              /\ Positions(enc.stream, GIF89a) = {1}
        /\ (hist.epoch = <<>> /\ hist.resets > 0) =>
              (enc.stream = <<>> /\ ~enc.hasInit)


(***************************************************************************)
(* Claims about find_nn and the merge loop of quantize.                    *)
(***************************************************************************)
\* n1*n2/(n1+n2) times the sum of squared mean differences of two bins, over
\* r, g, b and, when withAlpha, a.
MergeError(bin1, bin2, withAlpha) ==
    LET w == QDiv(QMul(bin1.cnt, bin2.cnt), QAdd(bin1.cnt, bin2.cnt))
        d2(x, y) == QSqr(QSub(x, y))
        rgb == QAdd(QAdd(d2(bin1.rc, bin2.rc), d2(bin1.gc, bin2.gc)),
                    d2(bin1.bc, bin2.bc))
    IN  QMul(w, IF withAlpha THEN QAdd(rgb, d2(bin1.ac, bin2.ac)) ELSE rgb)

\* Bin j (0-based) holds an error find_nn computed on the bins as they are
\* now: in the initial pass (no merge yet) or in a recomputation since the
\* last merge (tm = i), and it found a neighbour.
FreshError(j) ==
    /\ qz.pc = "loop"
    /\ j \in 0..(qz.maxbins - 1)
    /\ qz.bins[j + 1].tm = qz.i
    /\ qz.bins[j + 1].mtm <= qz.i
    /\ ~IsHuge(qz.bins[j + 1].err)

\* C11: the merge error find_nn stores for a bin and its neighbour, in the
\* initial pass and in every recomputation of the merge loop, is
\* n1*n2/(n1+n2) times the sum of squared mean differences over r, g, b and
\* a with format rgba4444, and over r, g, b with any other format.
C11_ErrorCountsAlpha ==
    \A j \in 0..(qz.maxbins - 1) :
        FreshError(j) =>
            qz.bins[j + 1].err =
                MergeError(qz.bins[j + 1], qz.bins[qz.bins[j + 1].nn + 1],
                           QHasAlpha)

\* What the code computes: the sum is over r, g, b for every format.
FindNNErrorIsRGBOnly ==
    \A j \in 0..(qz.maxbins - 1) :
        FreshError(j) =>
            qz.bins[j + 1].err =
                MergeError(qz.bins[j + 1], qz.bins[qz.bins[j + 1].nn + 1],
                           FALSE)


(***************************************************************************)
(* Claims about the cache key of applyPalette.                             *)
(***************************************************************************)
\* The key function the format names.
KeyOfFormat(format, color) ==
    IF format = "rgba4444"
    THEN rgba8888_to_rgba4444(color[1], color[2], color[3], color[4])
    ELSE IF format = "rgb444"
    THEN rgb888_to_rgb444(color[1], color[2], color[3])
    ELSE rgb888_to_rgb565(color[1], color[2], color[3])

\* C12: applyPalette takes its cache key function from the format (rgb565:
\* the 16-bit rgb565 key, rgb444: the 12-bit rgb444 key, rgba4444: the
\* 16-bit rgba4444 key), so every key it uses is an index below the cache
\* size of that format (4096 for rgb444, 65536 otherwise).
C12_KeyFromFormat ==
    ApDone =>
        \A i \in 1..Len(ap.data) :
            LET key == applyPalette_key(ap.format, ap.data[i])
            IN  /\ key = KeyOfFormat(ap.format, ap.data[i])
                /\ key >= 0
                /\ key < (IF ap.format = "rgb444" THEN 4096 ELSE 65536)

\* The second half of C12 on its own: every key used is below the cache size
\* applyPalette allocates for the format.
C12_KeyBeyondCache ==
    ApDone =>
        \A i \in 1..Len(ap.data) :
            applyPalette_key(ap.format, ap.data[i])
                < applyPalette_bincount(ap.format)

\* What the code does: the key is the rgba4444 key for rgba4444 and the
\* rgb565 key for both other formats.
ApplyPaletteKeyIs565 ==
    ApDone =>
        \A i \in 1..Len(ap.data) :
            applyPalette_key(ap.format, ap.data[i]) =
                KeyOfFormat(IF ap.format = "rgb444" THEN "rgb565"
                            ELSE ap.format, ap.data[i])


\* The bins (0-based) met walking the list from bin j via fw, at most n of
\* them.
RECURSIVE Walk(_, _, _)
Walk(bins, j, n) ==
    IF n = 0 THEN <<>>
    ELSE IF bins[j + 1].fw = 0 THEN <<j>>
    ELSE <<j>> \o Walk(bins, bins[j + 1].fw, n - 1)

ListOf(bins) == Walk(bins, 0, Len(bins) + 1)

Linked(bins) == {ListOf(bins)[k] : k \in 1..Len(ListOf(bins))}

Tombstoned(bins) ==
    {j \in 0..(Len(bins) - 1) :
        bins[j + 1].mtm = bincount(qz.opts.format) - 1}

\* quantize is in or past its merge loop, called with 1 <= maxColors <
\* maxbins.
C13_Case ==
    /\ qz.pc \in {"loop", "done"}
    /\ 1 <= qz.maxColors
    /\ qz.maxColors < qz.maxbins

\* After k = qz.i completed merges the list from bin 0 holds maxbins - k
\* bins, each once, bin 0 among them; the bins out of the list are the
\* tombstoned ones; after the loop maxColors bins are left.
C13_List ==
    C13_Case =>
        /\ Len(ListOf(qz.bins)) = qz.maxbins - qz.i
        /\ Cardinality(Linked(qz.bins)) = qz.maxbins - qz.i
        /\ 0 \in Linked(qz.bins)
        /\ Linked(qz.bins) = (0..(qz.maxbins - 1)) \ Tombstoned(qz.bins)
        /\ qz.pc = "done" => Cardinality(Linked(qz.bins)) = qz.maxColors

\* A merge takes the heap root and its neighbour: two distinct bins, both
\* linked and not tombstoned; it unlinks and tombstones the neighbour and
\* nothing else.
C13_Merge ==
    (C13_Case /\ QMerge) =>
        LET b1 == QRoot
            nn == qz.bins[b1 + 1].nn
        IN  /\ b1 # nn
            /\ nn # 0
            /\ {b1, nn} \subseteq Linked(qz.bins)
            /\ {b1, nn} \cap Tombstoned(qz.bins) = {}
            /\ Linked(qz'.bins) = Linked(qz.bins) \ {nn}
            /\ Tombstoned(qz'.bins) = Tombstoned(qz.bins) \cup {nn}
            /\ qz'.i = qz.i + 1

\* C13: in the merge loop with 1 <= maxColors < maxbins every merge combines
\* two distinct bins that are both still linked in the fw/bk list and not
\* tombstoned, unlinks exactly the neighbour and tombstones it; after k
\* merges the list walked from bin 0 via fw holds exactly maxbins - k bins,
\* after the loop exactly maxColors; a tombstoned bin is never accepted as a
\* merge candidate and bin 0 is never unlinked.
C13_MergeLoopKeepsList == [](C13_List) /\ [][C13_Merge]_vars

\* Five bins merged down to two: three merges, with deleted nodes popped
\* from the heap on the way.
C13_Witness ==
    /\ C13_Case
    /\ qz.pc = "done"
    /\ qz.maxbins = 5
    /\ qz.i = 3
    /\ Cardinality(Tombstoned(qz.bins)) = 3
    /\ qz.heap[0] < qz.maxbins

\* quantize is about to merge: the heap root passed the up-to-date test of
\* line 821 and lines 840-855 run next.
AtMerge == C13_Case /\ QInLoop /\ QUpToDate

\* The pair about to be merged has the least merge error among all pairs of
\* linked bins, the squared distance taken with or without the alpha means.
MergedPairIsMinimum(withAlpha) ==
    LET b1 == QRoot
        nn == qz.bins[b1 + 1].nn
        merged == MergeError(qz.bins[b1 + 1], qz.bins[nn + 1], withAlpha)
    IN  \A p, q \in Linked(qz.bins) :
            p < q =>
                QLe(merged,
                    MergeError(qz.bins[p + 1], qz.bins[q + 1], withAlpha))

\* C14: at every iteration of the merge loop the pair that is merged (the
\* accepted heap root b1 and bins[b1].nn) has the minimum merge error
\* n1*n2/(n1+n2) * ||mean1 - mean2||^2 among all pairs of bins still linked
\* at that moment, on their current means and counts; the means of an
\* rgba4444 bin are its r, g, b and a means.
C14_MergesMinimumPair == AtMerge => MergedPairIsMinimum(QHasAlpha)

\* What the loop does achieve, in every format: the merged pair is the
\* minimum of the error over r, g and b alone.
MergedPairIsRGBMinimum == AtMerge => MergedPairIsMinimum(FALSE)

\* A merge chosen among at least three linked bins after an earlier merge,
\* so that stale and refreshed errors both stood in the heap.
MergedPairWitness ==
    /\ AtMerge
    /\ qz.i >= 1
    /\ Cardinality(Linked(qz.bins)) >= 3
    /\ \E j \in Linked(qz.bins) : qz.bins[j + 1].tm < qz.i

====
